---- MODULE Spec2Model ----
(***************************************************************************)
(* Country Currency & Exchange API: the refresh/merge pipeline             *)
(* (app/services.py), the country store (app/crud.py, app/models.py), the  *)
(* session-per-request transactions (app/database.py) and the HTTP layer's *)
(* error mapping (app/main.py).                                            *)
(*                                                                         *)
(* Conventions.  An Optional[T] value is a sequence of length at most one: *)
(* None is <<>> and v is <<v>>.  A str that the code inspects character by *)
(* character (a country name) is a sequence of one-letter strings.  A      *)
(* float that results from a division is an exact fraction [num, den] in   *)
(* lowest terms (rounding is not modelled).  A timestamp is a reading of   *)
(* the integer clock.                                                      *)
(***************************************************************************)
EXTENDS Integers, Sequences, FiniteSets, TLC

VARIABLES
    dialect,          \* the database behind settings.DATABASE_URL
    cwd,              \* the process's working directory
    fs,               \* paths that exist in the file system
    countries,        \* committed rows of table "countries"
    app_status,       \* committed rows of table "app_status"
    next_id,          \* autoincrement counter of countries.id
    clock,            \* the wall clock
    pc,               \* per refresh request: position in the handler
    rates,            \* per refresh request: the fetched rate table
    src,              \* per refresh request: the fetched country list
    idx,              \* per refresh request: loop position in the list
    refresh_time,     \* per refresh request: the captured refresh time
    tx,               \* per refresh request: uncommitted writes of its session
    snapshot,         \* per refresh request: database as of the session's first statement
    db_before,        \* per refresh request: committed database when the request arrived
    country_payload,  \* per refresh request: the last CountryCreate built
    db_country,       \* per refresh request: the row upsert_country looked up
    exc,              \* per refresh request: the exception that ended it
    fetch_failure,    \* per refresh request: what went wrong with a fetch
    response,         \* per refresh request: the HTTP response
    q_pc,             \* GET /status request: position in the handler
    q_total,          \* GET /status request: the count it read
    q_before,         \* GET /status request: committed app_status at its first statement
    q_after,          \* GET /status request: what the committed database answers at its last statement
    q_response,       \* GET /status request: the HTTP response
    d_response,       \* last DELETE /countries/{name} request: the HTTP response
    l_args,           \* last read of the countries: its arguments
    l_response,       \* last read of the countries: the rows returned
    l_status          \* last GET of a country or of the image: the status code

vars == <<dialect, cwd, fs, countries, app_status, next_id, clock, pc, rates, src,
          idx, refresh_time, tx, snapshot, db_before, country_payload, db_country,
          exc, fetch_failure, response, q_pc, q_total, q_before, q_after,
          q_response, d_response, l_args, l_response, l_status>>

---------------------------------------------------------------------------
(* Bounds of the model *)

\* The clock stops here: at most this many refresh cycles capture a time.
MaxClock == 2

\* Largest number of rows of a store drawn for the query specification.
MaxRows == 6

---------------------------------------------------------------------------
(* Optional values, strings, fractions *)

None == <<>>

Some(v) == <<v>>

IsNone(o) == o = <<>>

\* Python truthiness of an Optional[str] whose str is a sequence of letters.
Truthy(o) == o # <<>> /\ o[1] # <<>>

\* Python truthiness of an Optional[str] whose str is a string.
TruthyStr(o) == o # <<>> /\ o[1] # ""

Upper == <<"N", "G", "W", "K", "H">>

LowerLetters == <<"n", "g", "w", "k", "h">>

\* str.lower() / SQL lower() on one letter.
LowerChar(c) ==
    IF \E i \in DOMAIN Upper : Upper[i] = c
    THEN LowerLetters[CHOOSE i \in DOMAIN Upper : Upper[i] = c]
    ELSE c

\* str.lower() / SQL lower() on a string.
Lower(s) == [i \in DOMAIN s |-> LowerChar(s[i])]

RECURSIVE Gcd(_, _)
Gcd(a, b) == IF b = 0 THEN a ELSE Gcd(b, a % b)

Abs(n) == IF n < 0 THEN 0 - n ELSE n

\* The float n / d, d > 0, as a fraction in lowest terms.
Frac(n, d) ==
    IF n = 0 THEN [num |-> 0, den |-> 1]
    ELSE [num |-> n \div Gcd(Abs(n), d), den |-> d \div Gcd(Abs(n), d)]

Zero == Frac(0, 1)

FracLess(a, b) == a.num * b.den < b.num * a.den

FracPositive(a) == a.num > 0

---------------------------------------------------------------------------
(* Program constants *)

\* random.randint(1000, 2000): both ends included.
MultMin == 1000

MultMax == 2000

\* get_countries(..., skip = 0, limit = 100)
DefaultSkip == 0

DefaultLimit == 100

\* get_top_gdp_countries(db, limit = 5)
TopLimit == 5

\* AppStatus.id: Column(Integer, primary_key=True, default=1)
StatusId == 1

HTTP_200_OK == 200

HTTP_404_NOT_FOUND == 404

HTTP_500_INTERNAL_SERVER_ERROR == 500

HTTP_503_SERVICE_UNAVAILABLE == 503

\* IMAGE_PATH = ROOT_DIR / "cache" / "summary.png"
IMAGE_PATH == <<"root", "cache", "summary.png">>

\* The directory of IMAGE_PATH.
ImageDir == SubSeq(IMAGE_PATH, 1, Len(IMAGE_PATH) - 1)

\* The relative path 'cache' of os.path.exists('cache') / os.makedirs('cache').
RelativeCacheDir(wd) == <<wd, "cache">>

---------------------------------------------------------------------------
(* Inputs: what the two external sources may answer *)

Url(scheme, host) == [scheme |-> scheme, host |-> host]

RawCountry(name, capital, region, population, currencies, flag) ==
    [name |-> name, capital |-> capital, region |-> region,
     population |-> population, currencies |-> currencies, flag |-> flag]

\* "Ng", rate known and positive.
RawNgA == RawCountry(Some(<<"N", "g">>), Some("Abuja"), Some("Africa"), Some(2),
                     <<Some("NGN")>>, Some(Url("https", "flags/ng")))

\* "ng": the same country in another letter case, currency absent from every table.
RawNgB == RawCountry(Some(<<"n", "g">>), Some("Lagos"), Some("Africa"), Some(3),
                     <<Some("XYZ")>>, None)

\* "NG": a third spelling, no currency list.
RawNgC == RawCountry(Some(<<"N", "G">>), None, None, Some(1), <<>>,
                     Some(Url("http", "flags/ng2")))

\* "Wk": no currency list.
RawWk == RawCountry(Some(<<"W", "k">>), None, Some("Africa"), Some(1), <<>>, None)

\* "Gh": population 0, rate 0.
RawGh == RawCountry(Some(<<"G", "h">>), Some("Accra"), Some("Africa"), Some(0),
                    <<Some("GHS")>>, None)

\* "Kh": rate negative, a second currency that is never read.
RawKh == RawCountry(Some(<<"K", "h">>), None, Some("Asia"), Some(2),
                    <<Some("NEG"), Some("NGN")>>, None)

\* "Hk": first currency entry without a code, then one with a known code.
RawHk == RawCountry(Some(<<"H", "k">>), None, Some("Asia"), Some(2),
                    <<None, Some("NGN")>>, None)

\* "Hn": first currency code is the empty string.
RawHn == RawCountry(Some(<<"H", "n">>), None, Some("Asia"), Some(2),
                    <<Some("")>>, None)

\* No name.
RawNoName == RawCountry(None, Some("Nowhere"), None, Some(5), <<Some("NGN")>>, None)

\* Empty name.
RawEmptyName == RawCountry(Some(<<>>), None, None, Some(5), <<>>, None)

\* No population.
RawNoPop == RawCountry(Some(<<"K", "w">>), None, None, None, <<Some("NGN")>>, None)

\* A flag that is no http(s) URL: CountryCreate rejects it.
RawBadFlag == RawCountry(Some(<<"H", "w">>), None, None, Some(1), <<>>,
                         Some(Url("ftp", "flags/hw")))

\* A currency whose rate is JSON null: rate > 0 raises TypeError.
RawNullRate == RawCountry(Some(<<"K", "n">>), None, None, Some(1),
                          <<Some("BAD")>>, None)

Raws == {RawNgA, RawNgB, RawNgC, RawWk, RawGh, RawKh, RawHk, RawHn, RawNoName,
         RawEmptyName, RawNoPop, RawBadFlag, RawNullRate}

\* response.json().get("rates", {}) of a full answer.
RatesFull == [c \in {"NGN", "GHS", "NEG", "BAD"} |->
                 CASE c = "NGN" -> Some(2)
                   [] c = "GHS" -> Some(0)
                   [] c = "NEG" -> Some(0 - 1)
                   [] OTHER -> None]

\* The odd rate.
RatesOdd == [c \in {"NGN"} |-> Some(3)]

\* response.json().get("rates", {}) of an answer without "rates".
RatesEmpty == [c \in {} |-> None]

RateTables == {RatesFull, RatesOdd, RatesEmpty}

\* The country lists the refresh cycles of the main specification fetch.
SourceLists ==
    { <<RawNgA, RawWk>>,
      <<RawNgB, RawNoName, RawNoPop, RawNgC, RawGh>>,
      <<RawWk, RawBadFlag>>,
      <<RawNgA, RawNullRate>> }

\* The rate tables the refresh cycles of the main specification fetch.
SourceRates == {RatesFull, RatesEmpty}

\* The draws of random.randint the main specification follows.
MultiplierSamples == {MultMin, MultMax}

\* Every draw of random.randint(1000, 2000).
Multipliers == MultMin .. MultMax

\* The names DELETE /countries/{name} is called with.
DeleteNames == { <<"n", "g">>, <<"K", "h">> }

---------------------------------------------------------------------------
(* process_and_cache_countries: one record of the loop *)

\* if not name or population is None: continue
Skip(raw) == ~Truthy(raw.name) \/ IsNone(raw.population)

\* currencies[0].get("code") when the list is not empty, else None.
FirstCurrencyCode(raw) ==
    IF raw.currencies # <<>> THEN raw.currencies[1] ELSE None

\* The estimate that multiplies by the rate where the code divides by it.
EstimateMultiplied(population, code, rate_table, multiplier) ==
    IF TruthyStr(code) /\ code[1] \in DOMAIN rate_table
    THEN LET exchange_rate == rate_table[code[1]]
         IN  [currency_code |-> code,
              exchange_rate |-> exchange_rate,
              estimated_gdp |->
                  IF exchange_rate[1] > 0
                  THEN Some(Frac(population * multiplier * exchange_rate[1], 1))
                  ELSE Some(Zero)]
    ELSE IF TruthyStr(code)
    THEN [currency_code |-> code, exchange_rate |-> None, estimated_gdp |-> None]
    ELSE [currency_code |-> None, exchange_rate |-> None, estimated_gdp |-> Some(Zero)]

\* The estimate with the two null policies swapped.
EstimateSwapped(population, code, rate_table, multiplier) ==
    IF TruthyStr(code) /\ code[1] \in DOMAIN rate_table
    THEN LET exchange_rate == rate_table[code[1]]
         IN  [currency_code |-> code,
              exchange_rate |-> exchange_rate,
              estimated_gdp |->
                  IF exchange_rate[1] > 0
                  THEN Some(Frac(population * multiplier, exchange_rate[1]))
                  ELSE Some(Zero)]
    ELSE IF TruthyStr(code)
    THEN [currency_code |-> code, exchange_rate |-> None, estimated_gdp |-> Some(Zero)]
    ELSE [currency_code |-> None, exchange_rate |-> None, estimated_gdp |-> None]

\* The decision on currency_code, exchange_rate and estimated_gdp, for a rate
\* that can be compared with 0.
Estimate(population, code, rate_table, multiplier) ==
    IF TruthyStr(code) /\ code[1] \in DOMAIN rate_table
    THEN LET exchange_rate == rate_table[code[1]]
         IN  [currency_code |-> code,
              exchange_rate |-> exchange_rate,
              estimated_gdp |->
                  IF exchange_rate[1] > 0
                  THEN Some(Frac(population * multiplier, exchange_rate[1]))
                  ELSE Some(Zero)]
    ELSE IF TruthyStr(code)
    THEN [currency_code |-> code, exchange_rate |-> None, estimated_gdp |-> None]
    ELSE [currency_code |-> None, exchange_rate |-> None, estimated_gdp |-> Some(Zero)]

\* flag_url: Optional[HttpUrl]
HttpUrlValid(flag) ==
    IsNone(flag) \/ (flag[1].scheme \in {"http", "https"} /\ flag[1].host # "")

\* The exception one iteration on a record that is not skipped raises, or "none".
RecordRaises(raw, rate_table) ==
    LET code == FirstCurrencyCode(raw)
    IN  IF TruthyStr(code) /\ code[1] \in DOMAIN rate_table /\ IsNone(rate_table[code[1]])
        THEN "TypeError"
        ELSE IF ~HttpUrlValid(raw.flag)
        THEN "ValidationError"
        ELSE "none"

\* schemas.CountryCreate(...) of a record that is not skipped and raises nothing.
CountryCreate(raw, rate_table, multiplier) ==
    LET e == Estimate(raw.population[1], FirstCurrencyCode(raw), rate_table, multiplier)
    IN  [name |-> raw.name[1],
         capital |-> raw.capital,
         region |-> raw.region,
         population |-> raw.population[1],
         currency_code |-> e.currency_code,
         exchange_rate |-> e.exchange_rate,
         estimated_gdp |-> e.estimated_gdp,
         flag_url |-> raw.flag]

---------------------------------------------------------------------------
(* The store: models.Country, models.AppStatus and crud.py *)

\* A row of table "countries" holding the payload's values.
CountryRow(id, payload, now) ==
    [id |-> id,
     name |-> payload.name,
     capital |-> payload.capital,
     region |-> payload.region,
     population |-> payload.population,
     currency_code |-> payload.currency_code,
     exchange_rate |-> payload.exchange_rate,
     estimated_gdp |-> payload.estimated_gdp,
     flag_url |-> payload.flag_url,
     last_refreshed_at |-> now]

\* A row of table "app_status".
StatusRow(id, time) == [id |-> id, last_refreshed_at |-> time]

\* The rows a session sees: the base rows, its own writes in place of or
\* added to them.
Overlay(base, written) ==
    {r \in base : \A w \in written : w.id # r.id} \cup written

\* The lookup without lower().
get_country_by_name_exact(rows, name) ==
    {r \in rows : r.name = name}

\* The rows of select(Country).where(lower(Country.name) == name.lower());
\* .first() returns one of them, or None when there is none.
get_country_by_name(rows, name) ==
    {r \in rows : Lower(r.name) = Lower(name)}

\* The upsert that writes every field but the name.
upsert_country_keep_name(rows, payload, new_id, now) ==
    LET matches == get_country_by_name(rows, payload.name)
    IN  IF matches # {}
        THEN {[written |-> [CountryRow(r.id, payload, now) EXCEPT !.name = r.name],
               found |-> Some(r)] : r \in matches}
        ELSE {[written |-> CountryRow(new_id, payload, now), found |-> None]}

\* The outcomes of upsert_country on the rows the session sees: the row
\* written and the row looked up.
upsert_country(rows, payload, new_id, now) ==
    LET matches == get_country_by_name(rows, payload.name)
    IN  IF matches # {}
        THEN {[written |-> CountryRow(r.id, payload, now), found |-> Some(r)] :
                 r \in matches}
        ELSE {[written |-> CountryRow(new_id, payload, now), found |-> None]}

\* select(func.count(Country.id)).scalar() or 0
get_countries_count(rows) == Cardinality(rows)

\* The rows of select(AppStatus).where(AppStatus.id == 1); .first() returns
\* one of them, or None.
get_app_status(status_rows) == {r \in status_rows : r.id = StatusId}

\* The status record written without the lookup, under the next free id.
update_app_status_appending(status_rows, time) ==
    {StatusRow(Cardinality(status_rows) + 1, Some(time))}

\* The row update_app_status writes.
update_app_status(status_rows, time) ==
    IF get_app_status(status_rows) # {}
    THEN {StatusRow(r.id, Some(time)) : r \in get_app_status(status_rows)}
    ELSE {StatusRow(StatusId, Some(time))}

---------------------------------------------------------------------------
(* Sessions and transactions: database.get_db, one AsyncSession per request *)

\* The requests to POST /countries/refresh that may be in flight.
Sessions == {1, 2}

Dialects == {"postgresql", "mysql"}

\* The committed database.
Db == [countries |-> countries, app_status |-> app_status]

EmptyTx == [rows |-> {}, status |-> {}]

\* Whether every statement of a transaction reads what is committed when the
\* statement runs (READ COMMITTED, the default of postgresql) instead of what
\* was committed at the transaction's first read (REPEATABLE READ, the
\* default of mysql).
StatementLevelReads(d) == d = "postgresql"

\* Whether ORDER BY ... DESC without NULLS LAST returns the NULLs first
\* (postgresql: NULL sorts as larger than every value) or last (mysql).
NullsFirstOnDesc(d) == d = "postgresql"

\* The database a statement of refresh session s reads, before its own writes.
Base(s) ==
    IF StatementLevelReads(dialect) \/ IsNone(snapshot[s]) THEN Db ELSE snapshot[s][1]

\* The snapshot of session s once it has run a statement.
Begun(s) == IF IsNone(snapshot[s]) THEN Some(Db) ELSE snapshot[s]

\* The rows of "countries" session s sees.
ViewCountries(s) == Overlay(Base(s).countries, tx[s].rows)

\* The rows of "app_status" session s sees.
ViewStatus(s) == Overlay(Base(s).app_status, tx[s].status)

\* A session that commits what it holds when it is closed.
get_db_committing(committed, written) == Overlay(committed, written)

\* The committed rows of a table once get_db leaves its "async with" without
\* a commit: the session is closed and its writes are rolled back.
get_db(committed, written) == committed

\* Whether another session holds an uncommitted write of the row of
\* "countries" with this id: an UPDATE of the row waits for that session to end.
RowLocked(s, id) ==
    \E t \in Sessions \ {s} : \E w \in tx[t].rows : w.id = id

\* Whether another session holds an uncommitted write of the status record:
\* an UPDATE of it, or an INSERT under the same primary key, waits.
StatusLocked(s) ==
    \E t \in Sessions \ {s} : tx[t].status # {}

Resting(s) == pc[s] \in {"idle", "done"}

AllResting == \A s \in Sessions : Resting(s)

---------------------------------------------------------------------------
(* HTTP layer: main.py *)

RefreshSuccess(time) ==
    [status_code |-> HTTP_200_OK, error |-> "", status |-> "success",
     refreshed_at |-> time]

\* service_unavailable_handler
service_unavailable_handler ==
    [status_code |-> HTTP_503_SERVICE_UNAVAILABLE,
     error |-> "External data source unavailable", status |-> "",
     refreshed_at |-> None]

\* generic_exception_handler
generic_exception_handler ==
    [status_code |-> HTTP_500_INTERNAL_SERVER_ERROR,
     error |-> "Internal server error", status |-> "", refreshed_at |-> None]

\* The response FastAPI gives for an exception that leaves the endpoint.
ExceptionResponse(e) ==
    IF e = "ServiceUnavailableException"
    THEN service_unavailable_handler
    ELSE generic_exception_handler

---------------------------------------------------------------------------
(* External Data Gateway: services.fetch_exchange_rates, fetch_countries_data *)

FetchFailures == {"network", "timeout", "status"}

FetchSources == {"Exchange Rates API", "RestCountries API"}

\* What client.get(url, timeout=10.0) followed by raise_for_status() raises.
HttpxRaises(failure) ==
    CASE failure = "network" -> "RequestError"
      [] failure = "timeout" -> "TimeoutException"
      [] failure = "status" -> "HTTPStatusError"

\* The exception that leaves fetch_exchange_rates: the except clause turns
\* httpx.RequestError and httpx.TimeoutException into
\* ServiceUnavailableException; httpx.HTTPStatusError is neither.
fetch_exchange_rates(failure) ==
    IF HttpxRaises(failure) \in {"RequestError", "TimeoutException"}
    THEN "ServiceUnavailableException"
    ELSE HttpxRaises(failure)

\* The exception that leaves fetch_countries_data: the same except clause.
fetch_countries_data(failure) ==
    IF HttpxRaises(failure) \in {"RequestError", "TimeoutException"}
    THEN "ServiceUnavailableException"
    ELSE HttpxRaises(failure)

\* The exception asyncio.gather raises when the fetch of this source fails.
GatherRaises(source, failure) ==
    IF source = "Exchange Rates API"
    THEN fetch_exchange_rates(failure)
    ELSE fetch_countries_data(failure)

---------------------------------------------------------------------------
(* Summary Reporter: services.generate_summary_image, lines 172-177 *)

\* The file system after makedirs('cache') and img.save(IMAGE_PATH), and
\* whether img.save raised because the directory of IMAGE_PATH is absent.
generate_summary_image(files, wd) ==
    LET made == IF RelativeCacheDir(wd) \notin files
                THEN files \cup {RelativeCacheDir(wd)}
                ELSE files
    IN  [fs |-> IF ImageDir \in made THEN made \cup {IMAGE_PATH} ELSE made,
         raised |-> ImageDir \notin made]

---------------------------------------------------------------------------
(* Initial state *)

InitSession ==
    /\ pc = [s \in Sessions |-> "idle"]
    /\ rates = [s \in Sessions |-> RatesEmpty]
    /\ src = [s \in Sessions |-> <<>>]
    /\ idx = [s \in Sessions |-> 1]
    /\ refresh_time = [s \in Sessions |-> None]
    /\ tx = [s \in Sessions |-> EmptyTx]
    /\ snapshot = [s \in Sessions |-> None]
    /\ db_before = [s \in Sessions |-> None]
    /\ country_payload = [s \in Sessions |-> None]
    /\ db_country = [s \in Sessions |-> None]
    /\ exc = [s \in Sessions |-> "none"]
    /\ fetch_failure = [s \in Sessions |-> None]
    /\ response = [s \in Sessions |-> None]

InitQueries ==
    /\ q_pc = "idle"
    /\ q_total = 0
    /\ q_before = None
    /\ q_after = None
    /\ q_response = None
    /\ d_response = None
    /\ l_args = None
    /\ l_response = None
    /\ l_status = None

\* The tables init_db creates are empty, nothing has been rendered, and the
\* server was started in the project root or elsewhere.
Init ==
    /\ dialect \in Dialects
    /\ cwd \in {"root", "other"}
    /\ fs = {}
    /\ countries = {}
    /\ app_status = {}
    /\ next_id = 0
    /\ clock = 0
    /\ InitSession
    /\ InitQueries

---------------------------------------------------------------------------
(* POST /countries/refresh: main.refresh_countries_data and                *)
(* services.process_and_cache_countries on the session get_db yields       *)

queryVars == <<q_pc, q_total, q_before, q_after, q_response, l_args, l_response,
               l_status>>

\* The request arrives; get_db opens its session.
RefreshBegin(s) ==
    /\ Resting(s)
    /\ pc' = [pc EXCEPT ![s] = "gather"]
    /\ db_before' = [db_before EXCEPT ![s] = Some(Db)]
    /\ rates' = [rates EXCEPT ![s] = RatesEmpty]
    /\ src' = [src EXCEPT ![s] = <<>>]
    /\ idx' = [idx EXCEPT ![s] = 1]
    /\ refresh_time' = [refresh_time EXCEPT ![s] = None]
    /\ tx' = [tx EXCEPT ![s] = EmptyTx]
    /\ snapshot' = [snapshot EXCEPT ![s] = None]
    /\ country_payload' = [country_payload EXCEPT ![s] = None]
    /\ db_country' = [db_country EXCEPT ![s] = None]
    /\ exc' = [exc EXCEPT ![s] = "none"]
    /\ fetch_failure' = [fetch_failure EXCEPT ![s] = None]
    /\ response' = [response EXCEPT ![s] = None]
    /\ d_response' = None
    /\ UNCHANGED <<dialect, cwd, fs, countries, app_status, next_id, clock, queryVars>>

\* The request ends with exception e: the session is closed without a commit,
\* which rolls its writes back, and FastAPI answers through a handler.
Raise(s, e) ==
    /\ pc' = [pc EXCEPT ![s] = "done"]
    /\ exc' = [exc EXCEPT ![s] = e]
    /\ countries' = get_db(countries, tx[s].rows)
    /\ app_status' = get_db(app_status, tx[s].status)
    /\ tx' = [tx EXCEPT ![s] = EmptyTx]
    /\ snapshot' = [snapshot EXCEPT ![s] = None]
    /\ response' = [response EXCEPT ![s] = Some(ExceptionResponse(e))]

\* The gather whose failure is swallowed: the loop runs on empty answers.
GatherFailSwallowed(s, source, failure) ==
    /\ pc[s] = "gather"
    /\ clock < MaxClock
    /\ clock' = clock + 1
    /\ fetch_failure' = [fetch_failure EXCEPT ![s] = Some([source |-> source, failure |-> failure])]
    /\ refresh_time' = [refresh_time EXCEPT ![s] = Some(clock')]
    /\ pc' = [pc EXCEPT ![s] = "loop"]
    /\ UNCHANGED <<dialect, cwd, fs, countries, app_status, next_id, rates, src, idx,
                   tx, snapshot, db_before, country_payload, db_country, exc,
                   response, queryVars, d_response>>

\* asyncio.gather raises: one of the two fetches failed.
GatherFail(s, source, failure) ==
    /\ pc[s] = "gather"
    /\ fetch_failure' = [fetch_failure EXCEPT ![s] = Some([source |-> source, failure |-> failure])]
    /\ Raise(s, GatherRaises(source, failure))
    /\ UNCHANGED <<dialect, cwd, fs, next_id, clock, rates,
                   src, idx, refresh_time, db_before, country_payload, db_country,
                   queryVars, d_response>>

\* asyncio.gather returns both answers; refresh_time = datetime.now(timezone.utc).
GatherOk(s, rate_table, list) ==
    /\ pc[s] = "gather"
    /\ clock < MaxClock
    /\ clock' = clock + 1
    /\ rates' = [rates EXCEPT ![s] = rate_table]
    /\ src' = [src EXCEPT ![s] = list]
    /\ idx' = [idx EXCEPT ![s] = 1]
    /\ refresh_time' = [refresh_time EXCEPT ![s] = Some(clock')]
    /\ pc' = [pc EXCEPT ![s] = "loop"]
    /\ UNCHANGED <<dialect, cwd, fs, countries, app_status, next_id, tx, snapshot,
                   db_before, country_payload, db_country, exc, fetch_failure,
                   response, queryVars, d_response>>

\* One iteration of the loop on a record with no name or no population.
LoopSkip(s) ==
    /\ pc[s] = "loop"
    /\ idx[s] <= Len(src[s])
    /\ Skip(src[s][idx[s]])
    /\ idx' = [idx EXCEPT ![s] = idx[s] + 1]
    /\ UNCHANGED <<dialect, cwd, fs, countries, app_status, next_id, clock, pc, rates,
                   src, refresh_time, tx, snapshot, db_before, country_payload,
                   db_country, exc, fetch_failure, response, queryVars, d_response>>

\* One iteration of the loop that raises before it reaches upsert_country.
LoopRaise(s) ==
    /\ pc[s] = "loop"
    /\ idx[s] <= Len(src[s])
    /\ ~Skip(src[s][idx[s]])
    /\ RecordRaises(src[s][idx[s]], rates[s]) # "none"
    /\ Raise(s, RecordRaises(src[s][idx[s]], rates[s]))
    /\ UNCHANGED <<dialect, cwd, fs, next_id, clock, rates,
                   src, idx, refresh_time, db_before, country_payload, db_country,
                   fetch_failure, queryVars, d_response>>

\* One iteration of the loop that builds the payload and upserts it; the
\* multiplier is drawn from multipliers.
LoopUpsert(s, multipliers) ==
    /\ pc[s] = "loop"
    /\ idx[s] <= Len(src[s])
    /\ ~Skip(src[s][idx[s]])
    /\ RecordRaises(src[s][idx[s]], rates[s]) = "none"
    /\ \A r \in get_country_by_name(ViewCountries(s), src[s][idx[s]].name[1]) :
         ~RowLocked(s, r.id)
    /\ \E m \in multipliers :
         LET payload == CountryCreate(src[s][idx[s]], rates[s], m)
         IN  \E out \in upsert_country(ViewCountries(s), payload, next_id + 1, clock) :
               /\ country_payload' = [country_payload EXCEPT ![s] = Some(payload)]
               /\ db_country' = [db_country EXCEPT ![s] = out.found]
               /\ tx' = [tx EXCEPT ![s].rows = Overlay(tx[s].rows, {out.written})]
               /\ next_id' = IF IsNone(out.found) THEN next_id + 1 ELSE next_id
    /\ snapshot' = [snapshot EXCEPT ![s] = Begun(s)]
    /\ idx' = [idx EXCEPT ![s] = idx[s] + 1]
    /\ UNCHANGED <<dialect, cwd, fs, countries, app_status, clock, pc, rates, src,
                   refresh_time, db_before, exc, fetch_failure, response, queryVars,
                   d_response>>

\* The lookup of upsert_country has found a row that another session holds
\* an uncommitted write of: the session has run its first statement, which
\* fixes what it reads under transaction-level reads, and its UPDATE waits.
UpsertWaits(s) ==
    /\ pc[s] = "loop"
    /\ idx[s] <= Len(src[s])
    /\ ~Skip(src[s][idx[s]])
    /\ RecordRaises(src[s][idx[s]], rates[s]) = "none"
    /\ \E r \in get_country_by_name(ViewCountries(s), src[s][idx[s]].name[1]) :
         RowLocked(s, r.id)
    /\ IsNone(snapshot[s])
    /\ snapshot' = [snapshot EXCEPT ![s] = Begun(s)]
    /\ UNCHANGED <<dialect, cwd, fs, countries, app_status, next_id, clock, pc, rates,
                   src, idx, refresh_time, tx, db_before, country_payload, db_country,
                   exc, fetch_failure, response, queryVars, d_response>>

\* After the loop, crud.update_app_status(db, refresh_time): the lookup of the
\* status record, which decides between the UPDATE and the INSERT.
UpdateStatus(s) ==
    /\ pc[s] = "loop"
    /\ idx[s] > Len(src[s])
    /\ snapshot' = [snapshot EXCEPT ![s] = Begun(s)]
    /\ pc' = [pc EXCEPT ![s] = IF get_app_status(ViewStatus(s)) = {}
                               THEN "status_insert"
                               ELSE "status_update"]
    /\ UNCHANGED <<dialect, cwd, fs, countries, app_status, next_id, clock, rates, src,
                   idx, refresh_time, tx, db_before, country_payload, db_country, exc,
                   fetch_failure, response, queryVars, d_response>>

\* db.add and await db.flush() of crud.update_app_status: the statement waits
\* while another session holds a write of the record; the INSERT of id 1
\* raises when a record of id 1 is committed by then.  Nothing is committed yet.
FlushStatus(s) ==
    /\ pc[s] \in {"status_insert", "status_update"}
    /\ ~StatusLocked(s)
    /\ IF pc[s] = "status_insert" /\ get_app_status(app_status) # {}
       THEN Raise(s, "IntegrityError")
       ELSE /\ tx' = [tx EXCEPT ![s].status =
                        Overlay(tx[s].status,
                                update_app_status(ViewStatus(s), refresh_time[s][1]))]
            /\ pc' = [pc EXCEPT ![s] = "commit"]
            /\ UNCHANGED <<countries, app_status, snapshot, exc, response>>
    /\ UNCHANGED <<dialect, cwd, fs, next_id, clock, rates, src, idx, refresh_time,
                   db_before, country_payload, db_country, fetch_failure, queryVars,
                   d_response>>

\* The commit put off until after the rendering: the writes stay in the
\* session.
CommitDeferred(s) ==
    /\ pc[s] = "commit"
    /\ pc' = [pc EXCEPT ![s] = "image"]
    /\ UNCHANGED <<dialect, cwd, fs, countries, app_status, tx, snapshot, next_id,
                   clock, rates, src, idx, refresh_time, db_before, country_payload,
                   db_country, exc, fetch_failure, response, queryVars, d_response>>

\* The commit of a cycle that reloads the table: the committed rows become
\* the rows the session wrote.
CommitReplacing(s) ==
    /\ pc[s] = "commit"
    /\ countries' = tx[s].rows
    /\ app_status' = Overlay(app_status, tx[s].status)
    /\ tx' = [tx EXCEPT ![s] = EmptyTx]
    /\ snapshot' = [snapshot EXCEPT ![s] = None]
    /\ pc' = [pc EXCEPT ![s] = "image"]
    /\ UNCHANGED <<dialect, cwd, fs, next_id, clock, rates, src, idx, refresh_time,
                   db_before, country_payload, db_country, exc, fetch_failure,
                   response, queryVars, d_response>>

\* await db.commit(): the session's writes become the committed rows, at once.
Commit(s) ==
    /\ pc[s] = "commit"
    /\ countries' = Overlay(countries, tx[s].rows)
    /\ app_status' = Overlay(app_status, tx[s].status)
    /\ tx' = [tx EXCEPT ![s] = EmptyTx]
    /\ snapshot' = [snapshot EXCEPT ![s] = None]
    /\ pc' = [pc EXCEPT ![s] = "image"]
    /\ UNCHANGED <<dialect, cwd, fs, next_id, clock, rates, src, idx, refresh_time,
                   db_before, country_payload, db_country, exc, fetch_failure,
                   response, queryVars, d_response>>

\* await generate_summary_image(db), then the return of the result; an
\* exception of the rendering leaves the endpoint like any other.
GenerateImage(s) ==
    /\ pc[s] = "image"
    /\ LET g == generate_summary_image(fs, cwd)
       IN  /\ fs' = g.fs
           /\ IF g.raised
              THEN /\ Raise(s, "FileNotFoundError")
              ELSE /\ pc' = [pc EXCEPT ![s] = "done"]
                   /\ response' = [response EXCEPT ![s] = Some(RefreshSuccess(refresh_time[s]))]
                   /\ UNCHANGED <<exc, tx, snapshot, countries, app_status>>
    /\ UNCHANGED <<dialect, cwd, next_id, clock, rates, src,
                   idx, refresh_time, db_before, country_payload, db_country,
                   fetch_failure, queryVars, d_response>>

---------------------------------------------------------------------------
(* Queries of crud.py *)

\* Code points of the letters, for ORDER BY name.
LetterOrder == <<"G", "H", "K", "N", "W", "g", "h", "k", "n", "w">>

LetterRank(c) == CHOOSE i \in DOMAIN LetterOrder : LetterOrder[i] = c

RECURSIVE NameLess(_, _)
NameLess(a, b) ==
    IF b = <<>> THEN FALSE
    ELSE IF a = <<>> THEN TRUE
    ELSE IF Head(a) # Head(b) THEN LetterRank(Head(a)) < LetterRank(Head(b))
    ELSE NameLess(Tail(a), Tail(b))

\* ORDER BY estimated_gdp DESC: whether row a must come before row b.
GdpDescBefore(a, b, nulls_first) ==
    IF IsNone(a.estimated_gdp) \/ IsNone(b.estimated_gdp)
    THEN IF nulls_first
         THEN IsNone(a.estimated_gdp) /\ ~IsNone(b.estimated_gdp)
         ELSE ~IsNone(a.estimated_gdp) /\ IsNone(b.estimated_gdp)
    ELSE FracLess(b.estimated_gdp[1], a.estimated_gdp[1])

\* Whether row a must come before row b under the ORDER BY of get_countries.
Before(a, b, sort, nulls_first) ==
    IF sort = Some("gdp_desc")
    THEN GdpDescBefore(a, b, nulls_first)
    ELSE NameLess(a.name, b.name)

\* The sequences the database may return for the rows under the ORDER BY:
\* rows that the order does not separate come in any order.
RECURSIVE OrderedBy(_, _, _)
OrderedBy(rows, sort, nulls_first) ==
    IF rows = {} THEN {<<>>}
    ELSE UNION { {<<r>> \o rest : rest \in OrderedBy(rows \ {r}, sort, nulls_first)} :
                 r \in {x \in rows : \A y \in rows : ~Before(y, x, sort, nulls_first)} }

\* .offset(skip).limit(limit)
Page(seq, skip, limit) ==
    SubSeq(seq, skip + 1, IF Len(seq) < skip + limit THEN Len(seq) ELSE skip + limit)

\* The results crud.get_countries may return.
get_countries(rows, region, currency, sort, skip, limit, nulls_first) ==
    LET matching == {r \in rows :
                        /\ TruthyStr(region) => r.region = region
                        /\ TruthyStr(currency) => r.currency_code = currency}
    IN  {Page(o, skip, limit) : o \in OrderedBy(matching, sort, nulls_first)}

---------------------------------------------------------------------------
(* GET /countries: main.get_all_countries *)

QueryArgs(op, name, region, currency, sort) ==
    [op |-> op, name |-> name, region |-> region, currency |-> currency, sort |-> sort]

RegionArgs == {None, Some("Africa"), Some("Asia")}

CurrencyArgs == {None, Some("NGN")}

SortArgs == {None, Some("gdp_desc")}

get_all_countries(region, currency, sort) ==
    /\ l_args' = Some(QueryArgs("list", None, region, currency, sort))
    /\ \E result \in get_countries(countries, region, currency, sort, DefaultSkip,
                                   DefaultLimit, NullsFirstOnDesc(dialect)) :
         l_response' = Some(result)
    /\ UNCHANGED <<dialect, cwd, fs, countries, app_status, next_id, clock, pc, rates,
                   src, idx, refresh_time, tx, snapshot, db_before, country_payload,
                   db_country, exc, fetch_failure, response, q_pc, q_total, q_before,
                   q_after, q_response, d_response, l_status>>

---------------------------------------------------------------------------
(* crud.get_top_gdp_countries, the read behind the summary image *)

\* The results crud.get_top_gdp_countries may return: ORDER BY estimated_gdp
\* DESC, then LIMIT.
get_top_gdp_countries(rows, limit, nulls_first) ==
    {Page(o, 0, limit) : o \in OrderedBy(rows, Some("gdp_desc"), nulls_first)}

\* top_5 = await crud.get_top_gdp_countries(db) in generate_summary_image.
ReadTopGdp ==
    /\ l_args' = Some(QueryArgs("top", None, None, None, Some("gdp_desc")))
    /\ \E result \in get_top_gdp_countries(countries, TopLimit, NullsFirstOnDesc(dialect)) :
         l_response' = Some(result)
    /\ UNCHANGED <<dialect, cwd, fs, countries, app_status, next_id, clock, pc, rates,
                   src, idx, refresh_time, tx, snapshot, db_before, country_payload,
                   db_country, exc, fetch_failure, response, q_pc, q_total, q_before,
                   q_after, q_response, d_response, l_status>>

---------------------------------------------------------------------------
(* GET /countries/{name} and GET /countries/image: the router, then        *)
(* main.get_country_by_name or main.get_summary_image                      *)

\* The GET routes in the order the decorators register them.  A request goes
\* to the first route whose path matches.
GetRoutes ==
    << [path |-> <<"countries">>,           endpoint |-> "get_all_countries"],
       [path |-> <<"countries", "{name}">>, endpoint |-> "get_country_by_name"],
       [path |-> <<"status">>,              endpoint |-> "get_status"],
       [path |-> <<"countries", "image">>,  endpoint |-> "get_summary_image"] >>

\* Whether the route's path matches the request's: a parameter matches any
\* one segment.
RouteMatches(route_path, path) ==
    /\ Len(route_path) = Len(path)
    /\ \A i \in DOMAIN path : route_path[i] = "{name}" \/ route_path[i] = path[i]

\* The endpoint the router hands the request to.
Dispatch(path) ==
    LET matching == {i \in DOMAIN GetRoutes : RouteMatches(GetRoutes[i].path, path)}
        first == CHOOSE i \in matching : \A j \in matching : i <= j
    IN  GetRoutes[first].endpoint

\* The characters of a path segment.
Characters(segment) ==
    CASE segment = "Ng" -> <<"N", "g">>
      [] segment = "ng" -> <<"n", "g">>
      [] segment = "nG" -> <<"n", "G">>
      [] segment = "Wk" -> <<"W", "k">>
      [] segment = "wK" -> <<"w", "K">>
      [] segment = "Kw" -> <<"K", "w">>
      [] segment = "image" -> <<"i", "m", "a", "g", "e">>

\* The last segments of the requests GET /countries/<segment>.
LookupSegments == {"Ng", "ng", "nG", "Wk", "wK", "Kw", "image"}

\* main.get_summary_image: the status code of its response.
get_summary_image(files) ==
    IF IMAGE_PATH \notin files THEN HTTP_404_NOT_FOUND ELSE HTTP_200_OK

\* A request GET /countries/<segment>.
GetCountries(segment) ==
    /\ LET endpoint == Dispatch(<<"countries", segment>>)
       IN  IF endpoint = "get_summary_image"
           THEN /\ l_args' = Some(QueryArgs("image", None, None, None, None))
                /\ l_response' = Some(<<>>)
                /\ l_status' = Some(get_summary_image(fs))
           ELSE LET name == Characters(segment)
                    found == get_country_by_name(countries, name)
                IN  /\ l_args' = Some(QueryArgs("find", Some(name), None, None, None))
                    /\ \/ /\ found = {}
                          /\ l_response' = Some(<<>>)
                          /\ l_status' = Some(HTTP_404_NOT_FOUND)
                       \/ \E db_country_found \in found :
                            /\ l_response' = Some(<<db_country_found>>)
                            /\ l_status' = Some(HTTP_200_OK)
    /\ UNCHANGED <<dialect, cwd, fs, countries, app_status, next_id, clock, pc, rates,
                   src, idx, refresh_time, tx, snapshot, db_before, country_payload,
                   db_country, exc, fetch_failure, response, q_pc, q_total, q_before,
                   q_after, q_response, d_response>>

---------------------------------------------------------------------------
(* GET /status: main.get_status, two statements on one session *)

\* What GET /status answers from one state of the two tables.
StatusObservations(rows, status_rows) ==
    IF get_app_status(status_rows) = {}
    THEN {[status_code |-> HTTP_200_OK,
           total_countries |-> get_countries_count(rows),
           last_refreshed_at |-> None]}
    ELSE {[status_code |-> HTTP_200_OK,
           total_countries |-> get_countries_count(rows),
           last_refreshed_at |-> status_record.last_refreshed_at] :
             status_record \in get_app_status(status_rows)}

\* total = await crud.get_countries_count(db): the session's first statement.
\* q_before keeps what the session's snapshot holds of the table it reads next.
GetStatusCount ==
    /\ q_pc \in {"idle", "done"}
    /\ q_pc' = "counted"
    /\ q_before' = Some(app_status)
    /\ q_after' = None
    /\ q_total' = get_countries_count(countries)
    /\ q_response' = None
    /\ UNCHANGED <<dialect, cwd, fs, countries, app_status, next_id, clock, pc, rates,
                   src, idx, refresh_time, tx, snapshot, db_before, country_payload,
                   db_country, exc, fetch_failure, response, d_response, l_args,
                   l_response, l_status>>

\* status_record = await crud.get_app_status(db), and the response.  q_after
\* keeps what the committed database would answer at this moment.
GetStatusRecord ==
    /\ q_pc = "counted"
    /\ q_pc' = "done"
    /\ q_after' = Some(StatusObservations(countries, app_status))
    /\ LET status_rows == IF StatementLevelReads(dialect) THEN app_status ELSE q_before[1]
       IN  \E answer \in StatusObservations(countries, status_rows) :
             q_response' = Some([answer EXCEPT !.total_countries = q_total])
    /\ UNCHANGED <<dialect, cwd, fs, countries, app_status, next_id, clock, pc, rates,
                   src, idx, refresh_time, tx, snapshot, db_before, country_payload,
                   db_country, exc, fetch_failure, response, q_total, q_before,
                   d_response, l_args, l_response, l_status>>

---------------------------------------------------------------------------
(* DELETE /countries/{name}: main.delete_country, crud.delete_country_by_name *)

\* The delete without its commit: the session closes and rolls it back.
delete_country_uncommitted(name) ==
    /\ LET found == get_country_by_name(countries, name)
       IN  \/ /\ found = {}
              /\ d_response' = Some([status_code |-> HTTP_404_NOT_FOUND,
                                     name |-> name, deleted |-> None])
           \/ \E db_row \in found :
                d_response' = Some([status_code |-> HTTP_200_OK,
                                    name |-> name, deleted |-> Some(db_row)])
    /\ UNCHANGED <<dialect, cwd, fs, countries, app_status, next_id, clock, pc, rates,
                   src, idx, refresh_time, tx, snapshot, db_before, country_payload,
                   db_country, exc, fetch_failure, response, queryVars>>

delete_country(name) ==
    /\ LET found == get_country_by_name(countries, name)
       IN  \/ /\ found = {}
              /\ countries' = countries
              /\ d_response' = Some([status_code |-> HTTP_404_NOT_FOUND,
                                     name |-> name, deleted |-> None])
           \/ \E db_row \in found :
                /\ countries' = countries \ {db_row}
                /\ d_response' = Some([status_code |-> HTTP_200_OK,
                                       name |-> name, deleted |-> Some(db_row)])
    /\ UNCHANGED <<dialect, cwd, fs, app_status, next_id, clock, pc, rates, src, idx,
                   refresh_time, tx, snapshot, db_before, country_payload, db_country,
                   exc, fetch_failure, response, queryVars>>

---------------------------------------------------------------------------
(* Specifications *)

\* The refresh requests of the main specification: one at a time (spec, 5).
SerialSessions == {1}

\* Serialized refresh cycles and deletes.
Next ==
    \/ \E s \in SerialSessions : AllResting /\ RefreshBegin(s)
    \/ \E s \in SerialSessions, source \in FetchSources, failure \in FetchFailures :
         GatherFail(s, source, failure)
    \/ \E s \in SerialSessions, rate_table \in SourceRates, list \in SourceLists :
         GatherOk(s, rate_table, list)
    \/ \E s \in SerialSessions : LoopSkip(s)
    \/ \E s \in SerialSessions : LoopRaise(s)
    \/ \E s \in SerialSessions : LoopUpsert(s, MultiplierSamples)
    \/ \E s \in SerialSessions : UpdateStatus(s)
    \/ \E s \in SerialSessions : FlushStatus(s)
    \/ \E s \in SerialSessions : Commit(s)
    \/ \E s \in SerialSessions : GenerateImage(s)
    \/ \E name \in DeleteNames : AllResting /\ delete_country(name)

Spec == Init /\ [][Next]_vars

\* The same, with GET /status requests running at any time.
NextReaders ==
    \/ Next
    \/ GetStatusCount
    \/ GetStatusRecord

SpecReaders == Init /\ [][NextReaders]_vars

\* The last segments of the requests of the specification below.
ImageSegments == {"image", "ng"}

\* Serialized refresh cycles and deletes, with requests GET /countries/image
\* and GET /countries/ng between them.
NextImage ==
    \/ Next
    \/ \E segment \in ImageSegments : AllResting /\ GetCountries(segment)

SpecImage == Init /\ [][NextImage]_vars

---------------------------------------------------------------------------
(* Overlapping refresh requests: nothing in main.py keeps a second request *)
(* from starting while the first is suspended at an await                  *)

\* The rows a cycle committed at clock reading 0 from the list Ng, Wk.
EarlierRows ==
    {CountryRow(1, CountryCreate(RawNgA, RatesFull, MultMin), 0),
     CountryRow(2, CountryCreate(RawWk, RatesFull, MultMin), 0)}

\* The databases the requests find: the empty tables of init_db, or the rows
\* and the status record of an earlier cycle.
EarlierDbs ==
    {[countries |-> {}, app_status |-> {}],
     [countries |-> EarlierRows, app_status |-> {StatusRow(StatusId, Some(0))}]}

InitOverlap ==
    /\ dialect \in Dialects
    /\ cwd \in {"root", "other"}
    /\ \E db \in EarlierDbs :
         /\ countries = db.countries
         /\ app_status = db.app_status
         /\ next_id = Cardinality(db.countries)
         /\ fs = IF db.app_status = {} THEN {} ELSE generate_summary_image({}, cwd).fs
    /\ clock = 0
    /\ InitSession
    /\ InitQueries

\* The fetch failures of the overlapping requests.
OverlapFailures == {"timeout"}

\* Two refresh requests, each on its own session, interleaved at their awaits.
NextOverlap ==
    \/ \E s \in Sessions : RefreshBegin(s)
    \/ \E s \in Sessions, source \in {"RestCountries API"}, failure \in OverlapFailures :
         GatherFail(s, source, failure)
    \/ \E s \in Sessions, rate_table \in SourceRates, list \in SourceLists :
         GatherOk(s, rate_table, list)
    \/ \E s \in Sessions : LoopSkip(s)
    \/ \E s \in Sessions : LoopRaise(s)
    \/ \E s \in Sessions : LoopUpsert(s, MultiplierSamples)
    \/ \E s \in Sessions : UpsertWaits(s)
    \/ \E s \in Sessions : UpdateStatus(s)
    \/ \E s \in Sessions : FlushStatus(s)
    \/ \E s \in Sessions : Commit(s)
    \/ \E s \in Sessions : GenerateImage(s)

SpecOverlap == InitOverlap /\ [][NextOverlap]_vars

---------------------------------------------------------------------------
(* One iteration of the refresh loop, on every record and every rate table *)

\* A refresh request on an empty store that has fetched one record and a
\* rate table and is about to process the record.
InitEstimate ==
    /\ dialect \in Dialects
    /\ cwd = "root"
    /\ fs = {}
    /\ countries = {}
    /\ app_status = {}
    /\ next_id = 0
    /\ clock = 1
    /\ pc = [s \in Sessions |-> IF s = 1 THEN "loop" ELSE "idle"]
    /\ rates \in {[s \in Sessions |-> IF s = 1 THEN t ELSE RatesEmpty] : t \in RateTables}
    /\ src \in {[s \in Sessions |-> IF s = 1 THEN <<raw>> ELSE <<>>] : raw \in Raws}
    /\ idx = [s \in Sessions |-> 1]
    /\ refresh_time = [s \in Sessions |-> IF s = 1 THEN Some(1) ELSE None]
    /\ tx = [s \in Sessions |-> EmptyTx]
    /\ snapshot = [s \in Sessions |-> None]
    /\ db_before = [s \in Sessions |-> IF s = 1 THEN Some([countries |-> {}, app_status |-> {}])
                                       ELSE None]
    /\ country_payload = [s \in Sessions |-> None]
    /\ db_country = [s \in Sessions |-> None]
    /\ exc = [s \in Sessions |-> "none"]
    /\ fetch_failure = [s \in Sessions |-> None]
    /\ response = [s \in Sessions |-> None]
    /\ InitQueries

NextEstimate ==
    \/ LoopSkip(1)
    \/ LoopRaise(1)
    \/ LoopUpsert(1, Multipliers)

SpecEstimate == InitEstimate /\ [][NextEstimate]_vars

---------------------------------------------------------------------------
(* The queries, on every store of up to MaxRows rows *)

\* The records the rows of the drawn stores come from.
QueryRaws == <<RawNgA, RawNgB, RawWk, RawGh, RawKh, RawHk, RawHn>>

\* The rows refresh cycles write for these records.
QueryRows ==
    {CountryRow(i, CountryCreate(QueryRaws[i], RatesFull, m), 1) :
        i \in DOMAIN QueryRaws, m \in MultiplierSamples}

\* The stores refresh cycles and deletes leave: one row per name.
QueryStores ==
    {rows \in SUBSET QueryRows :
        /\ Cardinality(rows) <= MaxRows
        /\ \A a, b \in rows : a # b => Lower(a.name) # Lower(b.name)}

\* After refresh cycles and deletes: a store, the status record, the image.
InitQuery ==
    /\ dialect \in Dialects
    /\ cwd = "root"
    /\ fs = {RelativeCacheDir("root"), IMAGE_PATH}
    /\ countries \in QueryStores
    /\ app_status = {StatusRow(StatusId, Some(1))}
    /\ next_id = Len(QueryRaws)
    /\ clock = 1
    /\ InitSession
    /\ InitQueries

\* One read of the drawn store: the reads leave the store as it is, and the
\* request variables keep the last read alone.
NextQuery ==
    \/ \E region \in RegionArgs, currency \in CurrencyArgs, sort \in SortArgs :
         IsNone(l_args) /\ get_all_countries(region, currency, sort)
    \/ IsNone(l_args) /\ ReadTopGdp
    \/ \E segment \in LookupSegments : IsNone(l_args) /\ GetCountries(segment)

SpecQuery == InitQuery /\ [][NextQuery]_vars

---------------------------------------------------------------------------
(* The queries, on stores of about as many rows as the default page holds *)

\* The letters of the names of a large store.
LargeLetters == <<"g", "h", "k", "n", "w">>

\* The i-th name: three letters, the digits of i in base Len(LargeLetters).
LargeName(i) ==
    LET b == Len(LargeLetters)
    IN  << LargeLetters[((i \div (b * b)) % b) + 1],
           LargeLetters[((i \div b) % b) + 1],
           LargeLetters[(i % b) + 1] >>

\* The i-th record of the source: its own name, its own population.
LargeRaw(i) ==
    RawCountry(Some(LargeName(i)), None, Some("Africa"), Some(i), <<Some("NGN")>>, None)

\* The store a refresh cycle leaves from the first n records.
LargeStore(n) ==
    {CountryRow(i, CountryCreate(LargeRaw(i), RatesFull, MultMin), 1) : i \in 1..n}

\* One row fewer than the default page, as many, one more.
LargeSizes == {DefaultLimit - 1, DefaultLimit, DefaultLimit + 1}

InitLarge ==
    /\ dialect \in Dialects
    /\ cwd = "root"
    /\ fs = {RelativeCacheDir("root"), IMAGE_PATH}
    /\ countries \in {LargeStore(n) : n \in LargeSizes}
    /\ app_status = {StatusRow(StatusId, Some(1))}
    /\ next_id = DefaultLimit + 1
    /\ clock = 1
    /\ InitSession
    /\ InitQueries

SpecLarge == InitLarge /\ [][NextQuery]_vars

---------------------------------------------------------------------------
(* Properties *)

\* Whether the row holds the payload's value in every mutable field.
HoldsPayload(row, payload) ==
    /\ row.name = payload.name
    /\ row.capital = payload.capital
    /\ row.region = payload.region
    /\ row.population = payload.population
    /\ row.currency_code = payload.currency_code
    /\ row.exchange_rate = payload.exchange_rate
    /\ row.estimated_gdp = payload.estimated_gdp
    /\ row.flag_url = payload.flag_url

\* Whether the session is inside its transaction with an upsert behind it
\* that found a row of the same name, ignoring case.
UpsertedAgain(s) ==
    /\ pc[s] \in {"loop", "status_insert", "status_update", "commit"}
    /\ ~IsNone(country_payload[s])
    /\ ~IsNone(db_country[s])

\* C1: when an upsert follows an earlier upsert of the same name ignoring
\* case, the session sees exactly one row of that name, the row holds the
\* second call's value in every mutable field, the new spelling of the name
\* included, and its id is the id of the row the first call left.
C1_SecondUpsertOverwritesInPlace ==
    \A s \in Sessions :
        UpsertedAgain(s) =>
            LET now == {r \in ViewCountries(s) :
                           Lower(r.name) = Lower(country_payload[s][1].name)}
            IN  /\ Cardinality(now) = 1
                /\ \A r \in now :
                     /\ HoldsPayload(r, country_payload[s][1])
                     /\ r.id = db_country[s][1].id

\* C1 witness: a second upsert has changed the spelling, the population and
\* the estimate of an existing row.
C1_Witness ==
    \E s \in Sessions :
        /\ UpsertedAgain(s)
        /\ db_country[s][1].name # country_payload[s][1].name
        /\ db_country[s][1].population # country_payload[s][1].population
        /\ db_country[s][1].estimated_gdp # country_payload[s][1].estimated_gdp
        /\ \E r \in ViewCountries(s) :
             r.id = db_country[s][1].id /\ HoldsPayload(r, country_payload[s][1])

OnePerName(rows) ==
    \A a, b \in rows : a # b => Lower(a.name) # Lower(b.name)

\* C2: under serialized refresh cycles and deletes, no two committed rows,
\* and no two rows a refresh session sees, have names equal ignoring case.
C2_OneRowPerName ==
    /\ OnePerName(countries)
    /\ \A s \in Sessions : OnePerName(ViewCountries(s))

\* Whether the list names one country twice in different letter case, in two
\* records that are not skipped.
RepeatsName(list) ==
    \E i, j \in DOMAIN list :
        /\ i < j
        /\ ~Skip(list[i]) /\ ~Skip(list[j])
        /\ list[i].name # list[j].name
        /\ Lower(list[i].name[1]) = Lower(list[j].name[1])

\* C2 witness: a cycle whose list repeats a name in another letter case has
\* committed on top of a store that already held that name, and left rows.
C2_Witness ==
    \E s \in Sessions :
        /\ pc[s] = "done"
        /\ exc[s] = "none"
        /\ RepeatsName(src[s])
        /\ \E r \in db_before[s][1].countries :
             Lower(r.name) = Lower(src[s][1].name[1])
        /\ Cardinality(countries) >= 2

\* C3: a refresh cycle in which a fetch failed has written nothing: as long
\* as no delete follows it, the committed rows and the status record are the
\* ones the request found.
C3_FetchFailureWritesNothing ==
    \A s \in Sessions :
        (~IsNone(fetch_failure[s]) /\ IsNone(d_response)) =>
            /\ Db = db_before[s][1]
            /\ tx[s] = EmptyTx

\* C3 witness: a fetch has failed for a request that found rows and a status
\* record in the store.
C3_Witness ==
    \E s \in Sessions :
        /\ pc[s] = "done"
        /\ ~IsNone(fetch_failure[s])
        /\ IsNone(d_response)
        /\ db_before[s][1].countries # {}
        /\ db_before[s][1].app_status # {}

\* Whether the request ended in an exception of the loop.
FailedInLoop(s) ==
    pc[s] = "done" /\ exc[s] \in {"TypeError", "ValidationError"}

\* C4: a refresh cycle that fails in its loop, after upserts or not, leaves
\* the committed store as the request found it: as long as no delete follows
\* it, the committed rows and the status record are unchanged.
C4_FailureBeforeCommitWritesNothing ==
    \A s \in Sessions :
        (FailedInLoop(s) /\ IsNone(d_response)) => Db = db_before[s][1]

\* C4 witness: a cycle has failed payload validation after an upsert.
C4_Witness ==
    \E s \in Sessions :
        /\ FailedInLoop(s)
        /\ exc[s] = "ValidationError"
        /\ ~IsNone(country_payload[s])
        /\ idx[s] > 1
        /\ IsNone(d_response)

\* What GET /status answers from the store as it was at its first statement.
StatusBefore ==
    {[o EXCEPT !.total_countries = q_total] : o \in StatusObservations({}, q_before[1])}

\* C5: the answer of a GET /status request is the answer of the committed
\* store as it was when the request read first or as it was when the request
\* read last, never a mix of the two.
C5_StatusSeesOneSnapshot ==
    q_pc = "done" => q_response[1] \in StatusBefore \cup q_after[1]

\* C6: when the rendering of the image fails after the commit, the refresh
\* request is answered with success and the cycle's refresh time.
C6_ImageFailureReportsSuccess ==
    \A s \in Sessions :
        (pc[s] = "done" /\ exc[s] = "FileNotFoundError") =>
            response[s] = Some(RefreshSuccess(refresh_time[s]))

\* C7: every failed fetch leaves the gateway as the typed source-unavailable
\* error and the refresh request is answered with 503.
C7_FetchFailureIs503 ==
    \A s \in Sessions :
        ~IsNone(fetch_failure[s]) =>
            /\ exc[s] = "ServiceUnavailableException"
            /\ response[s][1].status_code = HTTP_503_SERVICE_UNAVAILABLE

\* Whether the last iteration of the session's loop wrote a row.
JustUpserted(s) ==
    /\ pc[s] = "loop"
    /\ idx[s] > 1
    /\ ~Skip(src[s][idx[s] - 1])

\* The record of the last iteration.
LastRaw(s) == src[s][idx[s] - 1]

\* The rows the session has written under the name of the last record.
LastWritten(s) ==
    {r \in tx[s].rows : r.name = LastRaw(s).name[1]}

\* C8: the row written for a record follows the null policy: no currency
\* code gives code null, rate null, estimate 0.0; a code that is no key of
\* the rate table gives the code, rate null, estimate null; a code whose
\* rate is at most 0 gives the code, that rate, estimate 0.0.
C8_NullPolicy ==
    \A s \in Sessions :
        JustUpserted(s) =>
            /\ Cardinality(LastWritten(s)) = 1
            /\ \A r \in LastWritten(s) :
                 LET code == FirstCurrencyCode(LastRaw(s))
                 IN  /\ ~TruthyStr(code) =>
                          /\ r.currency_code = None
                          /\ r.exchange_rate = None
                          /\ r.estimated_gdp = Some(Zero)
                     /\ (TruthyStr(code) /\ code[1] \notin DOMAIN rates[s]) =>
                          /\ r.currency_code = code
                          /\ r.exchange_rate = None
                          /\ r.estimated_gdp = None
                     /\ (TruthyStr(code) /\ code[1] \in DOMAIN rates[s]
                            /\ rates[s][code[1]][1] <= 0) =>
                          /\ r.currency_code = code
                          /\ r.exchange_rate = rates[s][code[1]]
                          /\ r.estimated_gdp = Some(Zero)

\* C8 witness: a row has been written with a currency code, no rate and no
\* estimate.
C8_Witness ==
    \E s \in Sessions :
        /\ JustUpserted(s)
        /\ \E r \in LastWritten(s) :
             /\ r.currency_code = Some("XYZ")
             /\ r.exchange_rate = None
             /\ r.estimated_gdp = None

\* Whether the record's currency code has a positive rate in the table.
PositiveRate(raw, rate_table) ==
    /\ TruthyStr(FirstCurrencyCode(raw))
    /\ FirstCurrencyCode(raw)[1] \in DOMAIN rate_table
    /\ rate_table[FirstCurrencyCode(raw)[1]][1] > 0

\* C9: the row written for a record whose code has a rate above 0 holds that
\* rate and an estimate of population * multiplier / rate for a multiplier
\* of 1000..2000, which is above 0 when the population is.
C9_PositiveRateEstimate ==
    \A s \in Sessions :
        (JustUpserted(s) /\ PositiveRate(LastRaw(s), rates[s])) =>
            /\ Cardinality(LastWritten(s)) = 1
            /\ \A r \in LastWritten(s) :
                 LET rate == rates[s][FirstCurrencyCode(LastRaw(s))[1]][1]
                     population == LastRaw(s).population[1]
                 IN  /\ r.exchange_rate = Some(rate)
                     /\ ~IsNone(r.estimated_gdp)
                     /\ \E m \in MultMin .. MultMax :
                          r.estimated_gdp[1].num * rate
                              = population * m * r.estimated_gdp[1].den
                     /\ population > 0 => FracPositive(r.estimated_gdp[1])

\* C9 witness: a row has been written with an estimate that is no whole
\* number: population 2, rate 3.
C9_Witness ==
    \E s \in Sessions :
        /\ JustUpserted(s)
        /\ PositiveRate(LastRaw(s), rates[s])
        /\ \E r \in LastWritten(s) :
             /\ r.exchange_rate = Some(3)
             /\ r.estimated_gdp[1].den = 3

\* C10: GET /countries with sort=gdp_desc returns every row without an
\* estimate after every row with one, and the estimates in non-increasing
\* order.
C10_GdpDescNullsLast ==
    (~IsNone(l_args) /\ l_args[1].op = "list" /\ l_args[1].sort = Some("gdp_desc")) =>
        \A i, j \in DOMAIN l_response[1] :
            i < j =>
                /\ IsNone(l_response[1][i].estimated_gdp)
                       => IsNone(l_response[1][j].estimated_gdp)
                /\ (~IsNone(l_response[1][i].estimated_gdp)
                        /\ ~IsNone(l_response[1][j].estimated_gdp))
                       => ~FracLess(l_response[1][i].estimated_gdp[1],
                                    l_response[1][j].estimated_gdp[1])

\* The rows of a sequence.
Range(seq) == {seq[i] : i \in DOMAIN seq}

\* Whether the last read was the top-by-GDP read.
TopRead == ~IsNone(l_args) /\ l_args[1].op = "top"

\* Whether row x has a value of estimated_gdp and row r has none or a
\* smaller one.
GdpAbove(x, r) ==
    /\ ~IsNone(x.estimated_gdp)
    /\ IsNone(r.estimated_gdp) \/ FracLess(r.estimated_gdp[1], x.estimated_gdp[1])

\* C11: the top-by-GDP read with limit 5 returns min(5, count) distinct rows
\* of the store, and no row it leaves out has a value of estimated_gdp while
\* a row it returns has none or a smaller one.
C11_TopFiveGreatest ==
    TopRead =>
        LET returned == Range(l_response[1])
            count == get_countries_count(countries)
        IN  /\ Len(l_response[1]) = (IF count < TopLimit THEN count ELSE TopLimit)
            /\ Cardinality(returned) = Len(l_response[1])
            /\ returned \subseteq countries
            /\ \A x \in countries \ returned, r \in returned : ~GdpAbove(x, r)

\* Whether the step is a DELETE /countries/{name} request that got its answer.
DeleteStep == d_response' # d_response /\ ~IsNone(d_response')

\* C12: a delete of a name that no committed row has, ignoring case, is
\* answered 404 and leaves both tables as they were; a delete of a name that
\* a row has is answered 200, removes that one row from the committed table,
\* leaves every other row and the status record as they were, and a lookup
\* of the same name finds nothing afterwards.
C12_DeleteRemovesExactlyOneRow ==
    [][DeleteStep =>
          LET d == d_response'[1]
              named == {r \in countries : Lower(r.name) = Lower(d.name)}
          IN  /\ app_status' = app_status
              /\ IF named = {}
                 THEN /\ d.status_code = HTTP_404_NOT_FOUND
                      /\ countries' = countries
                 ELSE /\ d.status_code = HTTP_200_OK
                      /\ ~IsNone(d.deleted)
                      /\ d.deleted[1] \in named
                      /\ countries' = countries \ {d.deleted[1]}
                      /\ get_country_by_name(countries', d.name) = {}]_vars

\* C12 witness: a delete has removed a row whose stored name is spelled in
\* another letter case, and other rows and the status record remain.
C12_Witness ==
    /\ ~IsNone(d_response)
    /\ d_response[1].status_code = HTTP_200_OK
    /\ d_response[1].deleted[1].name # d_response[1].name
    /\ d_response[1].deleted[1] \notin countries
    /\ countries # {}
    /\ app_status # {}

\* Whether the last read was a lookup of one country by name.
FindRead == ~IsNone(l_args) /\ l_args[1].op = "find"

\* C13: the answer to a lookup by name is at most one row, 404 exactly when
\* it is none, and it is what the lookup finds in the same store for every
\* name that equals the requested one ignoring case.
C13_LookupIgnoresCase ==
    FindRead =>
        /\ Len(l_response[1]) <= 1
        /\ l_status = Some(IF l_response[1] = <<>> THEN HTTP_404_NOT_FOUND ELSE HTTP_200_OK)
        /\ \A segment \in LookupSegments :
             Lower(Characters(segment)) = Lower(l_args[1].name[1]) =>
                 get_country_by_name(countries, Characters(segment)) = Range(l_response[1])

\* C13 witness: a lookup has returned a row whose stored name is spelled in
\* another letter case than the request, and a third spelling is among the
\* names compared.
C13_Witness ==
    /\ FindRead
    /\ l_response[1] # <<>>
    /\ l_response[1][1].name # l_args[1].name[1]
    /\ \E segment \in LookupSegments :
         /\ Characters(segment) \notin {l_args[1].name[1], l_response[1][1].name}
         /\ Lower(Characters(segment)) = Lower(l_args[1].name[1])

\* Whether the last read was GET /countries.
ListRead == ~IsNone(l_args) /\ l_args[1].op = "list"

\* The rows that match the filters of the last read.
Matching ==
    {r \in countries :
        /\ TruthyStr(l_args[1].region) => r.region = l_args[1].region
        /\ TruthyStr(l_args[1].currency) => r.currency_code = l_args[1].currency}

\* C14: GET /countries returns every stored row that matches the filters,
\* each once, and no other row; with no filter, all rows of the store.
C14_ListReturnsEveryMatch ==
    ListRead =>
        /\ Range(l_response[1]) = Matching
        /\ Len(l_response[1]) = Cardinality(Matching)

\* Whether the request ended in the exception of the rendering.
RenderingFailed(s) == pc[s] = "done" /\ exc[s] = "FileNotFoundError"

\* Whether record i is the last record of the list that is not skipped and
\* has its name, ignoring case.
LastOfName(list, i) ==
    /\ ~Skip(list[i])
    /\ \A j \in DOMAIN list :
         (j > i /\ ~Skip(list[j])) => Lower(list[j].name[1]) # Lower(list[i].name[1])

\* Whether the rows hold, stamped with the time, what the cycle wrote last
\* for every name of its list.
HoldsCycle(rows, list, rate_table, time) ==
    \A i \in DOMAIN list :
        LastOfName(list, i) =>
            \E r \in rows, m \in MultiplierSamples :
                /\ HoldsPayload(r, CountryCreate(list[i], rate_table, m))
                /\ r.last_refreshed_at = time

\* C15: when the rendering of the image has failed after the commit, the
\* committed tables hold, as long as no delete follows, every row the cycle
\* upserted and the cycle's status record, and GET /status answers from them.
C15_CommitSurvivesRenderingFailure ==
    \A s \in Sessions :
        (RenderingFailed(s) /\ IsNone(d_response)) =>
            /\ HoldsCycle(countries, src[s], rates[s], refresh_time[s][1])
            /\ app_status = {StatusRow(StatusId, refresh_time[s])}
            /\ tx[s] = EmptyTx
            /\ StatusObservations(countries, app_status) =
                   {[status_code |-> HTTP_200_OK,
                     total_countries |-> Cardinality(countries),
                     last_refreshed_at |-> refresh_time[s]]}

\* C15 witness: the rendering has failed in a cycle that inserted a row and
\* replaced the status record of an earlier cycle.
C15_Witness ==
    \E s \in Sessions :
        /\ RenderingFailed(s)
        /\ IsNone(d_response)
        /\ db_before[s][1].app_status # {}
        /\ db_before[s][1].app_status # app_status
        /\ \E r \in countries : \A b \in db_before[s][1].countries : b.id # r.id

\* Whether the table holds nothing but at most one record of id 1.
AtMostTheOneRecord(status_rows) ==
    /\ Cardinality(status_rows) <= 1
    /\ \A r \in status_rows : r.id = StatusId

\* Whether the step is the commit of a refresh cycle.
CommitStep == \E s \in Sessions : pc[s] = "commit" /\ pc'[s] = "image"

\* C16: the committed status table, and the table as every refresh session
\* sees it, holds at most one record, of id 1; the committed table changes
\* in no step but the commit of a refresh cycle, which leaves a record in
\* it: no fetch failure, no failure in the loop, no delete removes it.
C16_OneStatusRecord ==
    /\ [](AtMostTheOneRecord(app_status)
            /\ \A s \in Sessions : AtMostTheOneRecord(ViewStatus(s)))
    /\ [][app_status' # app_status => (CommitStep /\ app_status' # {})]_vars

\* C16 witness: a second cycle has replaced the time of the record the first
\* cycle inserted, and a delete has followed.
C16_Witness ==
    /\ app_status = {StatusRow(StatusId, Some(MaxClock))}
    /\ \E s \in Sessions :
         /\ pc[s] = "done"
         /\ \E r \in db_before[s][1].app_status : r.last_refreshed_at # Some(MaxClock)
    /\ ~IsNone(d_response)
    /\ d_response[1].status_code = HTTP_200_OK

\* Whether the request's cycle has committed.
Committed(s) == pc[s] = "image" \/ (pc[s] = "done" /\ exc[s] \in {"none", "FileNotFoundError"})

\* Whether the request's cycle has ended before its commit.
FailedBeforeCommit(s) == pc[s] = "done" /\ ~Committed(s)

\* The last_refreshed_at GET /status would read from the committed table.
StatusTime == {r.last_refreshed_at : r \in get_app_status(app_status)}

\* C17: the committed status record has no time before any cycle commits and
\* changes in no step but a commit; once a cycle has committed, the record
\* holds the refresh time that cycle captured, and the cycle's answer to its
\* caller is the success that carries that same time; a cycle that ends
\* before its commit leaves the record as the request found it.
C17_StatusTimeOfLastCommit ==
    /\ [](\A s \in Sessions :
            /\ Committed(s) => StatusTime = {refresh_time[s]}
            /\ (Committed(s) /\ pc[s] = "done") =>
                   response[s] = Some(RefreshSuccess(refresh_time[s]))
            /\ FailedBeforeCommit(s) => app_status = db_before[s][1].app_status)
    /\ [][app_status' # app_status => CommitStep]_vars

\* Whether the list has a record without a name or without a population,
\* and no record that makes the loop raise.
SkipsAndNothingElse(list, rate_table) ==
    /\ \E i \in DOMAIN list : Skip(list[i])
    /\ \A i \in DOMAIN list : ~Skip(list[i]) => RecordRaises(list[i], rate_table) = "none"

\* Whether the rows have a row for a record that the loop skips although it
\* carries a name, a name that neither the store held before nor another
\* record of the list has.
HoldsSkipped(rows, before, list) ==
    \E i \in DOMAIN list :
        /\ Skip(list[i])
        /\ Truthy(list[i].name)
        /\ \A j \in DOMAIN list :
             ~Skip(list[j]) => Lower(list[j].name[1]) # Lower(list[i].name[1])
        /\ \A b \in before : Lower(b.name) # Lower(list[i].name[1])
        /\ \E r \in rows : Lower(r.name) = Lower(list[i].name[1])

\* C18: a request whose fetches answered, whose list has records without a
\* name or without a population and no record that raises, ends without an
\* exception and with the success response; as long as no delete follows,
\* the committed rows hold what the list says last for each name of a
\* record that has both, a population of 0 included, and no row for the
\* records that lack one.
C18_SkippedRecordsDoNotFail ==
    \A s \in Sessions :
        (/\ pc[s] = "done"
         /\ IsNone(fetch_failure[s])
         /\ SkipsAndNothingElse(src[s], rates[s])
         /\ IsNone(d_response)) =>
            /\ exc[s] = "none"
            /\ response[s] = Some(RefreshSuccess(refresh_time[s]))
            /\ HoldsCycle(countries, src[s], rates[s], refresh_time[s][1])
            /\ ~HoldsSkipped(countries, db_before[s][1].countries, src[s])

\* Whether the request's cycle has called generate_summary_image.
Rendered(s) == pc[s] = "done" /\ exc[s] \in {"none", "FileNotFoundError"}

\* Whether the last read was the request GET /countries/image.
ImageRequested ==
    /\ ~IsNone(l_args)
    /\ \/ l_args[1].op = "image"
       \/ l_args[1].op = "find" /\ l_args[1].name = Some(Characters("image"))

\* C19: a cycle that has called the summary generation has ended without an
\* exception, and the directory of IMAGE_PATH and the image exist; a request
\* GET /countries/image is answered 404 if the image does not exist and 200
\* if it does.
C19_ImageWrittenAndServed ==
    /\ \A s \in Sessions :
         Rendered(s) => (exc[s] = "none" /\ ImageDir \in fs /\ IMAGE_PATH \in fs)
    /\ ImageRequested =>
         l_status = Some(IF IMAGE_PATH \in fs THEN HTTP_200_OK ELSE HTTP_404_NOT_FOUND)

\* Whether no record of the list that the loop upserts has the row's name,
\* ignoring case.
NotNamed(row, list) ==
    \A i \in DOMAIN list :
        ~Skip(list[i]) => Lower(list[i].name[1]) # Lower(row.name)

\* C20: from the arrival of a refresh request on, as long as no delete
\* follows, every row the request found is still a committed row under its
\* id, a row whose name no upserted record of the fetched list has is
\* committed unchanged in every column, and the table has no fewer rows.
C20_RefreshKeepsOtherRows ==
    \A s \in Sessions :
        (~IsNone(db_before[s]) /\ IsNone(d_response)) =>
            LET before == db_before[s][1].countries
            IN  /\ \A b \in before :
                     /\ \E r \in countries : r.id = b.id
                     /\ NotNamed(b, src[s]) => b \in countries
                /\ Cardinality(countries) >= Cardinality(before)

\* C20 witness: a cycle has committed and ended; it has changed a row the
\* request found and inserted another, and a row of an earlier cycle whose
\* name its list does not have is committed as it was.
C20_Witness ==
    \E s \in Sessions :
        /\ pc[s] = "done"
        /\ exc[s] = "none"
        /\ IsNone(d_response)
        /\ \E b \in db_before[s][1].countries :
             /\ NotNamed(b, src[s])
             /\ b \in countries
             /\ b.last_refreshed_at # refresh_time[s][1]
        /\ \E b \in db_before[s][1].countries : b \notin countries
        /\ Cardinality(countries) > Cardinality(db_before[s][1].countries)

\* Whether both requests have ended after cycles that overlapped: each has
\* committed, and each arrived before the other's commit.
BothCommittedOverlapping ==
    /\ \A s \in Sessions : pc[s] = "done" /\ Committed(s)
    /\ \A s \in Sessions : db_before[s] = db_before[1]

\* C21: when two refresh cycles that overlapped have both committed and
\* ended, no two committed rows have names equal ignoring case.
C21_OverlapKeepsOneRowPerName ==
    BothCommittedOverlapping => OnePerName(countries)
====
